---- MODULE Spec2Model ----
(***************************************************************************)
(* Dijkstra's shortest path over a Network of Node and Arc objects, as     *)
(* implemented in dijkstras_shortest_path.py.                              *)
(*                                                                         *)
(* The network (nodes, arcs) is populated before any search and is never   *)
(* changed by a search.  A search is spath_algorithm(network, source_name, *)
(* destination_name); it is modelled at the granularity of its calls:      *)
(* spath_initialise, each call of spath_iteration, the choice between the  *)
(* two return branches, and each turn of the loop of spath_extract_path.   *)
(*                                                                         *)
(* Arc weights are floats in the program; the model uses small naturals    *)
(* (exactly representable, so sums agree) and one value Inf for            *)
(* float('inf').                                                           *)
(***************************************************************************)
EXTENDS Integers, Sequences, FiniteSets, TLC

VARIABLES
    nodes,      \* names of network.nodes
    arcs,       \* network.arcs: records [from, to, weight]
    order,      \* iteration order of the unvisited set (a permutation of nodes)
    value,      \* value[n] = Node.value of node n: [dist, pred]
    unvisited,  \* the unvisited set of the running search
    pc,         \* position of spath_algorithm: idle, iterate, finish, extract, done,
                \* raised (the call ended in an uncaught AttributeError)
    source,     \* source_name of the current call
    dest,       \* destination_name of the current call
    solved,     \* solved_node_name: the last return value of spath_iteration
    calls,      \* number of calls of spath_iteration made by the current call
    current,    \* current_node of spath_extract_path
    walk,       \* the list `path` of spath_extract_path while it is being built
    ret,        \* what the call returned: "unset", "none" for (None, None), "pair"
    distance,   \* returned distance when ret = "pair"
    path,       \* returned path when ret = "pair"
    prev        \* result of the preceding call when this call repeats its arguments

vars == <<nodes, arcs, order, value, unvisited, pc, source, dest, solved, calls,
          current, walk, ret, distance, path, prev>>

(***************************************************************************)
(* Bounds of the model.                                                    *)
(***************************************************************************)
BaseNames == {"A", "B", "C"}
MaxArcs == 2
MaxWeight == 1

(***************************************************************************)
(* Values.                                                                 *)
(***************************************************************************)
None == "None"
\* float('inf'): Inf + w = Inf, and nothing is greater than Inf.
Inf == -1

Plus(w, d) == IF d = Inf THEN Inf ELSE w + d
Less(a, b) == IF a = Inf THEN FALSE ELSE IF b = Inf THEN TRUE ELSE a < b

\* Node.value after Node(name): no search has written it yet.
NoValue == [dist |-> Inf, pred |-> None, unset |-> TRUE]

NoPrev == [ret |-> "unset", distance |-> 0, path |-> <<>>]

\* The outgoing arcs of node n (Node.arcs_out, filled by add_arc).
arcs_out(as, n) == {a \in as : a.from = n}

\* Every order in which the elements of S can stand in a list.
Orderings(S) ==
    {f \in [1..Cardinality(S) -> S] : \A i, j \in 1..Cardinality(S) : f[i] = f[j] => i = j}

RECURSIVE Reverse(_)
Reverse(s) == IF s = <<>> THEN <<>> ELSE Append(Reverse(Tail(s)), Head(s))

(***************************************************************************)
(* The networks the searches run on.                                       *)
(***************************************************************************)
AllArcs(ns) == {[from |-> f, to |-> t, weight |-> w] : f \in ns, t \in ns, w \in 0..MaxWeight}

RECURSIVE ArcSets(_, _)
ArcSets(ns, k) ==
    IF k = 0 THEN {{}}
    ELSE LET smaller == ArcSets(ns, k - 1)
         IN  smaller \cup {s \cup {a} : s \in smaller, a \in AllArcs(ns)}

\* The network of the worked example: A->B(1), A->C(4), B->C(2), B->D(5), C->D(1).
ScenarioNodes == {"A", "B", "C", "D"}
ScenarioArcs ==
    { [from |-> "A", to |-> "B", weight |-> 1],
      [from |-> "A", to |-> "C", weight |-> 4],
      [from |-> "B", to |-> "C", weight |-> 2],
      [from |-> "B", to |-> "D", weight |-> 5],
      [from |-> "C", to |-> "D", weight |-> 1] }

Networks ==
    {<<ns, as>> : ns \in {ScenarioNodes}, as \in {ScenarioArcs}}
    \cup UNION {{<<ns, as>> : as \in ArcSets(ns, MaxArcs)} : ns \in SUBSET BaseNames}

\* Names a caller may pass: every node name, and names that are no node's.
ArgNames == BaseNames \cup nodes

(***************************************************************************)
(* spath_initialise: called by spath_algorithm, defined outside the file.  *)
(* Every node gets distance +infinity and no predecessor, the source gets  *)
(* distance 0, and the unvisited set is the set of all node names.         *)
(***************************************************************************)
spath_initialise(val, ns, source_name) ==
    [n \in ns |-> [dist |-> IF n = source_name THEN 0 ELSE Inf, pred |-> None]]

(***************************************************************************)
(* spath_iteration                                                         *)
(***************************************************************************)
\* min(unvisited, key=distance): the first element, in the set's iteration
\* order, that no other element is strictly smaller than.
IsMin(unv, val, n) == n \in unv /\ \A m \in unv : ~Less(val[m].dist, val[n].dist)

SelectMin(unv, val, ord) ==
    LET i == CHOOSE i \in 1..Len(ord) :
                 /\ IsMin(unv, val, ord[i])
                 /\ \A j \in 1..(i - 1) : ~IsMin(unv, val, ord[j])
    IN  ord[i]

\* Relax with the predecessor's distance left out of dist_sum.
Relax_NoAccumulate(val, arc, solved_name) ==
    LET dist_sum == arc.weight
    IN  IF Less(dist_sum, val[arc.to].dist)
        THEN [val EXCEPT ![arc.to] = [dist |-> dist_sum, pred |-> solved_name]]
        ELSE val

\* Relax with <= where the code has <.
Relax_NonStrict(val, arc, solved_name) ==
    LET dist_sum == Plus(arc.weight, val[arc.from].dist)
    IN  IF ~Less(val[arc.to].dist, dist_sum)
        THEN [val EXCEPT ![arc.to] = [dist |-> dist_sum, pred |-> solved_name]]
        ELSE val

\* The body of the loop over solved_node.arcs_out, for one arc.
Relax(val, arc, solved_name) ==
    LET dist_sum == Plus(arc.weight, val[arc.from].dist)
    IN  IF Less(dist_sum, val[arc.to].dist)
        THEN [val EXCEPT ![arc.to] = [dist |-> dist_sum, pred |-> solved_name]]
        ELSE val

RECURSIVE RelaxAll(_, _, _)
RelaxAll(val, outs, solved_name) ==
    IF outs = <<>> THEN val
    ELSE RelaxAll(Relax(val, Head(outs), solved_name), Tail(outs), solved_name)

\* The loop of spath_algorithm goes on while the solved name is neither the
\* destination nor None.
AfterIteration(solved_name, destination_name) ==
    IF solved_name # destination_name /\ solved_name # None THEN "iterate" ELSE "finish"

(***************************************************************************)
(* Actions                                                                 *)
(***************************************************************************)
Init ==
    /\ \E net \in Networks :
        /\ nodes = net[1]
        /\ arcs = net[2]
        /\ order \in Orderings(net[1])
        /\ value = [n \in net[1] |-> NoValue]
    /\ unvisited = {}
    /\ pc = "idle"
    /\ source = None
    /\ dest = None
    /\ solved = None
    /\ calls = 0
    /\ current = None
    /\ walk = <<>>
    /\ ret = "unset"
    /\ distance = 0
    /\ path = <<>>
    /\ prev = NoPrev

\* Call with the initialisation applied only to nodes no search has written yet.
Call_KeepValues(source_name, destination_name) ==
    /\ pc \in {"idle", "done", "raised"}
    /\ source_name \in nodes
    /\ source' = source_name
    /\ dest' = destination_name
    /\ prev' = IF pc = "done" /\ source = source_name /\ dest = destination_name
               THEN [ret |-> ret, distance |-> distance, path |-> path]
               ELSE NoPrev
    /\ value' = [n \in nodes |->
                    IF n = source_name THEN [dist |-> 0, pred |-> None]
                    ELSE [dist |-> value[n].dist, pred |-> value[n].pred]]
    /\ unvisited' = nodes
    /\ solved' = None
    /\ calls' = 0
    /\ current' = None
    /\ walk' = <<>>
    /\ ret' = "unset"
    /\ distance' = 0
    /\ path' = <<>>
    /\ pc' = "iterate"
    /\ UNCHANGED <<nodes, arcs, order>>

\* spath_algorithm is entered and spath_initialise runs.
Call(source_name, destination_name) ==
    /\ pc \in {"idle", "done", "raised"}
    /\ source_name \in nodes
    /\ source' = source_name
    /\ dest' = destination_name
    /\ prev' = IF pc = "done" /\ source = source_name /\ dest = destination_name
               THEN [ret |-> ret, distance |-> distance, path |-> path]
               ELSE NoPrev
    /\ value' = spath_initialise(value, nodes, source_name)
    /\ unvisited' = nodes
    /\ solved' = None
    /\ calls' = 0
    /\ current' = None
    /\ walk' = <<>>
    /\ ret' = "unset"
    /\ distance' = 0
    /\ path' = <<>>
    /\ pc' = "iterate"
    /\ UNCHANGED <<nodes, arcs, order>>

\* spath_algorithm is entered with a source name that is no node's:
\* spath_initialise reads an attribute of get_node's None and the call ends in
\* an AttributeError, before or after the other nodes were reset.
CallUnknownSource(source_name, destination_name) ==
    /\ pc \in {"idle", "done", "raised"}
    /\ source_name \notin nodes
    /\ source' = source_name
    /\ dest' = destination_name
    /\ prev' = NoPrev
    /\ value' \in {value, [n \in nodes |-> [dist |-> Inf, pred |-> None]]}
    /\ solved' = None
    /\ calls' = 0
    /\ current' = None
    /\ walk' = <<>>
    /\ ret' = "unset"
    /\ distance' = 0
    /\ path' = <<>>
    /\ pc' = "raised"
    /\ UNCHANGED <<nodes, arcs, order, unvisited>>

\* spath_iteration on an empty unvisited set: the while loop is not entered.
IterateEmpty ==
    /\ pc = "iterate"
    /\ unvisited = {}
    /\ solved' = None
    /\ calls' = calls + 1
    /\ pc' = AfterIteration(None, dest)
    /\ UNCHANGED <<nodes, arcs, order, value, unvisited, source, dest, current, walk,
                   ret, distance, path, prev>>

\* spath_iteration on a non-empty unvisited set.
IterateSolve ==
    /\ pc = "iterate"
    /\ unvisited # {}
    /\ LET solved_name == SelectMin(unvisited, value, order)
       IN  /\ \E outs \in Orderings(arcs_out(arcs, solved_name)) :
                 value' = RelaxAll(value, outs, solved_name)
           /\ unvisited' = unvisited \ {solved_name}
           /\ solved' = solved_name
           /\ pc' = AfterIteration(solved_name, dest)
    /\ calls' = calls + 1
    /\ UNCHANGED <<nodes, arcs, order, source, dest, current, walk, ret, distance, path,
                   prev>>

\* No node was solved: distance and path are None.
FinishNone ==
    /\ pc = "finish"
    /\ solved = None
    /\ ret' = "none"
    /\ pc' = "done"
    /\ UNCHANGED <<nodes, arcs, order, value, unvisited, source, dest, solved, calls,
                   current, walk, distance, path, prev>>

\* The destination was solved: read its distance and enter spath_extract_path.
FinishFound ==
    /\ pc = "finish"
    /\ solved # None
    /\ distance' = value[dest].dist
    /\ current' = dest
    /\ walk' = <<>>
    /\ pc' = "extract"
    /\ UNCHANGED <<nodes, arcs, order, value, unvisited, source, dest, solved, calls,
                   ret, path, prev>>

\* One turn of the loop of spath_extract_path.
ExtractStep ==
    /\ pc = "extract"
    /\ value[current].pred # None
    /\ walk' = Append(walk, value[current].pred)
    /\ current' = value[current].pred
    /\ UNCHANGED <<nodes, arcs, order, value, unvisited, pc, source, dest, solved, calls,
                   ret, distance, path, prev>>

\* ExtractedPath without the destination appended.
ExtractedPath_NoDestination(w, destination_name) == Reverse(w)

\* The list spath_extract_path returns.
ExtractedPath(w, destination_name) == Append(Reverse(w), destination_name)

\* The loop of spath_extract_path ends and spath_algorithm returns.
ExtractEnd ==
    /\ pc = "extract"
    /\ value[current].pred = None
    /\ path' = ExtractedPath(walk, dest)
    /\ ret' = "pair"
    /\ pc' = "done"
    /\ UNCHANGED <<nodes, arcs, order, value, unvisited, source, dest, solved, calls,
                   current, walk, distance, prev>>

Next ==
    \/ \E s \in ArgNames, d \in ArgNames : Call(s, d)
    \/ \E s \in ArgNames, d \in ArgNames : CallUnknownSource(s, d)
    \/ IterateEmpty
    \/ IterateSolve
    \/ FinishNone
    \/ FinishFound
    \/ ExtractStep
    \/ ExtractEnd

Spec == Init /\ [][Next]_vars

(***************************************************************************)
(* Reference notions the properties are stated with.                       *)
(***************************************************************************)
RECURSIVE SumWeights(_)
SumWeights(p) == IF p = <<>> THEN 0 ELSE Head(p).weight + SumWeights(Tail(p))

\* The arc sequences that lead from s to d, with at most one arc per node.
\* A shortest path never needs more when no weight is negative.
PathsBetween(s, d) ==
    {p \in UNION {[1..k -> arcs] : k \in 1..Cardinality(nodes)} :
        /\ p[1].from = s
        /\ p[Len(p)].to = d
        /\ \A i \in 1..(Len(p) - 1) : p[i].to = p[i + 1].from}

PathExists(s, d) == s = d \/ PathsBetween(s, d) # {}

\* The minimum total weight over the directed paths from s to d (the empty
\* path, of weight 0, when s = d).
MinPathWeight(s, d) ==
    IF s = d THEN 0
    ELSE LET ws == {SumWeights(p) : p \in PathsBetween(s, d)}
         IN  CHOOSE w \in ws : \A v \in ws : w <= v

\* The names in p are joined, pair by pair, by arcs whose weights sum to dist.
JoinedByArcs(p, dist) ==
    \E q \in [1..(Len(p) - 1) -> arcs] :
        /\ \A i \in 1..(Len(p) - 1) : q[i].from = p[i] /\ q[i].to = p[i + 1]
        /\ SumWeights(q) = dist

Result == [ret |-> ret, distance |-> distance, path |-> path]

\* What spath_algorithm(network, s, d) returns on a freshly built copy of the
\* network, whose nodes no search has written.
RECURSIVE FreshWalk(_, _)
FreshWalk(val, n) ==
    IF val[n].pred = None THEN <<>> ELSE <<val[n].pred>> \o FreshWalk(val, val[n].pred)

RECURSIVE FreshSearch(_, _, _)
FreshSearch(val, unv, d) ==
    IF unv = {} THEN [ret |-> "none", distance |-> 0, path |-> <<>>]
    ELSE LET s == SelectMin(unv, val, order)
             outs == CHOOSE o \in Orderings(arcs_out(arcs, s)) : TRUE
             val2 == RelaxAll(val, outs, s)
         IN  IF AfterIteration(s, d) = "finish"
             THEN [ret |-> "pair", distance |-> val2[d].dist,
                   path |-> ExtractedPath(FreshWalk(val2, d), d)]
             ELSE FreshSearch(val2, unv \ {s}, d)

FreshResult(s, d) ==
    FreshSearch(spath_initialise([n \in nodes |-> NoValue], nodes, s), nodes, d)

AllInf(unv, val) == \A n \in unv : val[n].dist = Inf

\* The node reached from n by k steps along the predecessors, None past the end.
RECURSIVE Ancestor(_, _)
Ancestor(n, k) ==
    IF n = None THEN None
    ELSE IF k = 0 THEN n
    ELSE Ancestor(value[n].pred, k - 1)

(***************************************************************************)
(* C1: when source and destination are nodes and a directed path leads     *)
(* from the source to the destination, the call returns a pair whose       *)
(* distance is the minimum total arc weight over all such paths.           *)
(***************************************************************************)
C1_ShortestDistance ==
    (pc = "done" /\ source \in nodes /\ dest \in nodes /\ PathExists(source, dest))
        => (ret = "pair" /\ distance = MinPathWeight(source, dest))

\* The worked example: A to D is 4, along A, B, C, D.
C1_Witness ==
    /\ pc = "done"
    /\ nodes = ScenarioNodes
    /\ source = "A"
    /\ dest = "D"
    /\ distance = 4
    /\ path = <<"A", "B", "C", "D">>

(***************************************************************************)
(* C2: whenever the call returns a path, the path starts with the source,  *)
(* ends with the destination, each consecutive pair of its names is joined *)
(* by an arc in that direction, and the weights of those arcs sum to the   *)
(* returned distance.                                                      *)
(***************************************************************************)
C2_PathMatchesDistance ==
    (pc = "done" /\ ret = "pair")
        => /\ Len(path) >= 1
           /\ path[1] = source
           /\ path[Len(path)] = dest
           /\ JoinedByArcs(path, distance)

(***************************************************************************)
(* C3: when source and destination are nodes and no directed path leads    *)
(* from the source to the destination, the call returns (None, None).      *)
(***************************************************************************)
C3_UnreachableReturnsNone ==
    (pc = "done" /\ source \in nodes /\ dest \in nodes /\ ~PathExists(source, dest))
        => ret = "none"

(***************************************************************************)
(* C4: a call whose source and destination are the same node s returns     *)
(* distance 0 and the path [s], whatever arcs leave or enter s.            *)
(***************************************************************************)
C4_SourceIsDestination ==
    (pc = "done" /\ source = dest /\ source \in nodes)
        => (ret = "pair" /\ distance = 0 /\ path = <<source>>)

\* Such a call has returned on a network with an arc leaving s for another
\* node and an arc entering s from another node.
C4_Witness ==
    /\ pc = "done"
    /\ source = dest
    /\ source \in nodes
    /\ \E a \in arcs : a.from = source /\ a.to # source
    /\ \E a \in arcs : a.to = source /\ a.from # source
    /\ ret = "pair"

(***************************************************************************)
(* C5: a call returns what the same call returns on a freshly built copy   *)
(* of the network, whatever searches ran before it; and a call that        *)
(* repeats the arguments of the call just before it returns the same       *)
(* result.                                                                 *)
(***************************************************************************)
C5_NoStateLeak ==
    pc = "done"
        => /\ Result = FreshResult(source, dest)
           /\ prev # NoPrev => Result = prev

\* A repeated call has returned a path of several nodes.
C5_Witness ==
    /\ pc = "done"
    /\ prev # NoPrev
    /\ ret = "pair"
    /\ Len(path) >= 2

(***************************************************************************)
(* C6: a call whose source or destination is the name of no node fails     *)
(* with an unknown-node error: it does not return a result, neither a      *)
(* pair nor (None, None).  (The AttributeError of an unknown source is     *)
(* the unguarded access the claim rules out as well.)                      *)
(***************************************************************************)
C6_UnknownNodeRejected ==
    pc = "done" => (source \in nodes /\ dest \in nodes)

(***************************************************************************)
(* C7: a call of spath_iteration made when the unvisited set is empty, or  *)
(* when every unvisited node has distance +infinity, returns None and      *)
(* leaves the unvisited set and every node's value unchanged.              *)
(***************************************************************************)
C7_NoInfiniteNodeSolved ==
    [][(pc = "iterate" /\ AllInf(unvisited, value))
          => (solved' = None /\ unvisited' = unvisited /\ value' = value)]_vars

(***************************************************************************)
(* C8: a call of spath_iteration changes neither the distance nor the      *)
(* predecessor of a node removed from the unvisited set, by an earlier     *)
(* call or by this one, and increases no node's distance.                  *)
(***************************************************************************)
C8_SolvedIsFinal ==
    [][pc = "iterate"
          => /\ \A n \in nodes \ unvisited' : value'[n] = value[n]
             /\ \A n \in nodes : ~Less(value[n].dist, value'[n].dist)]_vars

\* A solved node at a finite distance has just relaxed an arc into a node
\* that was solved before it.
C8_Witness ==
    /\ pc \in {"iterate", "finish"}
    /\ solved \in nodes
    /\ value[solved].dist # Inf
    /\ \E a \in arcs : a.from = solved /\ a.to # solved /\ a.to \notin unvisited

(***************************************************************************)
(* C9: a call makes at most |nodes| calls of spath_iteration, and each     *)
(* call of spath_iteration that solves a node removes exactly one name     *)
(* from the unvisited set.                                                 *)
(***************************************************************************)
C9_AtMostNodesIterations ==
    /\ calls <= Cardinality(nodes)
    /\ pc = "iterate" => Cardinality(unvisited) = Cardinality(nodes) - calls

(***************************************************************************)
(* C10: during a search, every node n with a predecessor p has p removed   *)
(* from the unvisited set, an arc p->n in the network and distance equal   *)
(* to p's distance plus that arc's weight; the predecessor chains have no  *)
(* cycle, and the walk of spath_extract_path takes fewer than |nodes|      *)
(* steps and ends at the source.                                           *)
(***************************************************************************)
PredecessorJustified(n) ==
    LET p == value[n].pred
    IN  p # None =>
            /\ p \in nodes \ unvisited
            /\ \E a \in arcs :
                   a.from = p /\ a.to = n /\ value[n].dist = Plus(a.weight, value[p].dist)

C10_PredecessorChain ==
    pc # "idle"
        => /\ \A n \in nodes : PredecessorJustified(n)
           /\ \A n \in nodes : Ancestor(n, Cardinality(nodes)) = None
           /\ pc = "extract" =>
                  /\ Len(walk) < Cardinality(nodes)
                  /\ value[current].pred = None => current = source

====
